---- MODULE Spec2Model ----
(***************************************************************************)
(* A model of intermittent_slider.py: the Gilbert burst channel, the       *)
(* region posterior box_probability, and the per-frame tick of SliderDemo. *)
(*                                                                         *)
(* Real numbers are exact rationals <<n, d>> in lowest terms with d > 0;   *)
(* <<0, 0>> is NaN.  Floating-point rounding is not modelled.              *)
(***************************************************************************)
EXTENDS Integers, Sequences, FiniteSets

VARIABLES
    pc,          \* which step the run is at
    args,        \* the parsed command line (args.sampling)
    boxes,       \* SliderDemo.boxes / the boxes argument of box_probability
    particles,   \* SliderDemo.particles: a sequence of <<position, velocity>>
    weights,     \* SliderDemo.weights
    box_weights, \* the value returned by box_probability
    gilbert,     \* the Gilbert object: [p1, p2, state]
    upd,         \* the last call of Call_update: state before, dt, draws, result
    slider,      \* the scalar fields of SliderDemo
    now,         \* the reading of time.time(), in frames of 1/60 s
    log_open,    \* SliderLogger.log_file is open
    log_row,     \* the last row handed to SliderLogger.log
    filter_call, \* the arguments of the last slider_filter.filter_step call
    count        \* the last draw call: the channel state it started in, and how
                 \* often it entered draw, Gilbert.update, filter_step and log

vars == <<pc, args, boxes, particles, weights, box_weights, gilbert, upd, slider,
          now, log_open, log_row, filter_call, count>>

----------------------------------------------------------------------------
(* Exact rational arithmetic.                                              *)

\* Operators take the values they use more than once as arguments, which TLC
\* evaluates once.

Abs(n) == IF n < 0 THEN -n ELSE n

RECURSIVE GCD(_, _)
GCD(a, b) == IF b = 0 THEN a ELSE GCD(b, a % b)

Reduce(n, d, g) == IF d < 0 THEN <<-(n \div g), -(d \div g)>> ELSE <<n \div g, d \div g>>

Norm(n, d) == IF d = 0 THEN <<0, 0>> ELSE Reduce(n, d, GCD(Abs(n), Abs(d)))

NaN == <<0, 0>>
Zero == <<0, 1>>
One == <<1, 1>>
IsNaN(a) == a[2] = 0

\* the least common multiple of the denominators
Lcm(a, b) == (a \div GCD(a, b)) * b

AddOver(a, b, l) == Norm(a[1] * (l \div a[2]) + b[1] * (l \div b[2]), l)

RAdd(a, b) ==
    IF IsNaN(a) \/ IsNaN(b) THEN NaN ELSE AddOver(a, b, Lcm(a[2], b[2]))

RNeg(a) == <<-a[1], a[2]>>
RSub(a, b) == RAdd(a, RNeg(b))

\* (a1 / a2) * (b1 / b2), g1 = gcd(a1, b2) and g2 = gcd(b1, a2) cancelled first
MulCancel(a, b, g1, g2) ==
    Norm((a[1] \div g1) * (b[1] \div g2), (a[2] \div g2) * (b[2] \div g1))

RMul(a, b) ==
    IF IsNaN(a) \/ IsNaN(b) THEN NaN
    ELSE MulCancel(a, b, GCD(Abs(a[1]), b[2]), GCD(Abs(b[1]), a[2]))

\* a / b for b # 0 (the callers guard the division)
RDiv(a, b) ==
    IF IsNaN(a) \/ IsNaN(b) THEN NaN
    ELSE RMul(a, IF b[1] < 0 THEN <<-b[2], -b[1]>> ELSE <<b[2], b[1]>>)

\* a < b and a > b as IEEE comparisons: false when either side is NaN
RLess(a, b) == ~IsNaN(a) /\ ~IsNaN(b) /\ a[1] * b[2] < b[1] * a[2]
RGreater(a, b) == RLess(b, a)

RECURSIVE RSum(_)
RSum(s) == IF s = <<>> THEN Zero ELSE RAdd(s[1], RSum(Tail(s)))

----------------------------------------------------------------------------
(* Box and box_probability.                                                *)

Box(name, left, right, prior) ==
    [name |-> name, left |-> left, right |-> right, prior |-> prior]

\* the smoothing constant 1e-6 added to every score
EpsNum == 1
EpsDen == 1000000
Eps == Norm(EpsNum, EpsDen)

\* InBox with the bounds included: xs >= box.left and xs <= box.right
InBox_closed(x, box) ==
    /\ (RGreater(x, box.left) \/ x = box.left)
    /\ (RLess(x, box.right) \/ x = box.right)

\* xs > box.left and xs < box.right
InBox(x, box) == RGreater(x, box.left) /\ RLess(x, box.right)

\* weights[np.logical_and(xs > box.left, xs < box.right)] * box.prior
RECURSIVE MaskedWeights(_, _, _)
MaskedWeights(ps, ws, box) ==
    IF ps = <<>> THEN <<>>
    ELSE (IF InBox(ps[1][1], box) THEN <<RMul(ws[1], box.prior)>> ELSE <<>>)
         \o MaskedWeights(Tail(ps), Tail(ws), box)

\* Posterior without the prior: np.sum(weights[...])
Posterior_noprior(ps, ws, box) == RSum(MaskedWeights(ps, ws, [box EXCEPT !.prior = One]))

\* posterior = np.sum(weights[...] * box.prior)
Posterior(ps, ws, box) == RSum(MaskedWeights(ps, ws, box))

\* probs after the loop: one posterior per box, in box order
RECURSIVE Posteriors(_, _, _)
Posteriors(ps, ws, bs) ==
    IF bs = <<>> THEN <<>>
    ELSE <<Posterior(ps, ws, bs[1])>> \o Posteriors(ps, ws, Tail(bs))

\* np.array(probs) + 1e-6
RECURSIVE AddEps(_)
AddEps(probs) ==
    IF probs = <<>> THEN <<>> ELSE <<RAdd(probs[1], Eps)>> \o AddEps(Tail(probs))

\* Probs without the smoothing: np.array(probs)
Probs_unsmoothed(ps, ws, bs) == Posteriors(ps, ws, bs)

Probs(ps, ws, bs) == AddEps(Posteriors(ps, ws, bs))

\* probs / total, element by element; a zero total gives nan or inf in numpy,
\* both modelled as NaN
RECURSIVE DivideAll(_, _)
DivideAll(probs, total) ==
    IF probs = <<>> THEN <<>>
    ELSE <<IF total = Zero THEN NaN ELSE RDiv(probs[1], total)>>
         \o DivideAll(Tail(probs), total)

\* probs / np.sum(probs)
Normalise(probs) == DivideAll(probs, RSum(probs))

\* box_probability with the smoothing added after the division:
\* probs / np.sum(probs) + 1e-6
box_probability_smoothed_last(ps, ws, bs) == AddEps(Normalise(Posteriors(ps, ws, bs)))

box_probability(ps, ws, bs) == Normalise(Probs(ps, ws, bs))

----------------------------------------------------------------------------
(* Gilbert.                                                                *)

Gilbert(p1, p2) == [p1 |-> p1, p2 |-> p2, state |-> 0]

RECURSIVE RPow(_, _)
RPow(a, n) == IF n = 0 THEN One ELSE RMul(a, RPow(a, n - 1))

\* Scaled without the sampling-rate correction: the base probability
Scaled_unscaled(p, dt) == p

\* 1 - ((1 - p) ** dt), for dt a whole number of time units
Scaled(p, dt) == RSub(One, RPow(RSub(One, p), dt))

\* The state after `if self.state == 0: if random() < p1: self.state = 1`,
\* where u1 is that random() draw.
AfterFirstIf(g, dt, u1) ==
    IF g.state = 0 /\ RLess(u1, Scaled(g.p1, dt)) THEN 1 ELSE g.state

\* The state after the second `if self.state == 1:`, which tests the state the
\* first `if` left; u2 is its random() draw.
AfterSecondIf(g, s, dt, u2) ==
    IF s = 1 /\ RLess(u2, Scaled(g.p2, dt)) THEN 0 ELSE s

\* Gilbert.update(dt): the object after the call
update(g, dt, u1, u2) ==
    [g EXCEPT !.state = AfterSecondIf(g, AfterFirstIf(g, dt, u1), dt, u2)]

\* What the call did: the state it started in, the draws it took (NaN for a
\* random() that was not called) and the value it returned.
UpdateRecord(g, dt, u1, u2) ==
    [pre |-> g.state,
     dt |-> dt,
     u1 |-> IF g.state = 0 THEN u1 ELSE NaN,
     u2 |-> IF AfterFirstIf(g, dt, u1) = 1 THEN u2 ELSE NaN,
     ret |-> update(g, dt, u1, u2).state]

NoUpdate == [pre |-> -1, dt |-> 0, u1 |-> NaN, u2 |-> NaN, ret |-> -1]
NoGilbert == [p1 |-> NaN, p2 |-> NaN, state |-> -1]

----------------------------------------------------------------------------
(* Bounds and input grids.                                                 *)

MaxParticles == 4     \* box_probability is applied to clouds of 1..MaxParticles
n_particles == 2      \* SliderDemo.n_particles (200 in the source)
MaxDt == 2            \* frames between two clock readings: 0..MaxDt
MaxTime == 2          \* the clock runs from 0 to MaxTime

R(n, d) == Norm(n, d)

\* create_slider's three boxes
DefaultBoxes ==
    << Box("A", R(0, 1), R(1, 10), R(1, 4)),
       Box("X", R(1, 10), R(9, 10), R(1, 4)),
       Box("B", R(9, 10), R(1, 1), R(1, 2)) >>

\* two overlapping boxes
OverlapBoxes ==
    << Box("A", R(0, 1), R(1, 2), R(1, 4)),
       Box("X", R(1, 10), R(1, 1), R(1, 2)) >>

\* a box with left > right and a box with prior 0
ReversedBoxes ==
    << Box("A", R(1, 2), R(1, 10), R(1, 4)),
       Box("B", R(9, 10), R(1, 1), R(0, 1)) >>

BoxLists == {DefaultBoxes, OverlapBoxes, ReversedBoxes}

\* positions in increasing order
PosList == << R(1, 20), R(1, 10), R(1, 2), R(19, 20), R(6, 5) >>
WeightGrid == {R(0, 1), R(1, 4), R(1, 2), R(1, 1)}

\* box_probability sums over the particles, so clouds are enumerated up to the
\* order of their positions: position indices are non-decreasing.
Sorted(n, m) == {f \in [1..n -> 1..m] : \A i \in 1..(n - 1) : f[i] <= f[i + 1]}

\* weight vectors of n particles that sum to at most 1
WeightVecs(n) == {ws \in [1..n -> WeightGrid] : ~RLess(One, RSum(ws))}

\* the particles at the positions with indices ix, velocity 0
CloudParticles(ix) == [i \in DOMAIN ix |-> <<PosList[ix[i]], Zero>>]

\* the random() draws, all in [0, 1)
Draws == {R(0, 1), R(2, 5), R(4, 5)}
\* base probabilities of the channel, per time unit
ProbGrid == {R(0, 1), R(3, 10), R(1, 2)}

----------------------------------------------------------------------------
(* box_probability applied to every cloud and box list of the grids.       *)

NoSlider ==
    [sampling_intermittency |-> NaN, last_x |-> NaN, last_t |-> 0, dx |-> NaN,
     x |-> NaN, t |-> 0, dt |-> 0, observed_x |-> NaN, observed |-> FALSE]
NoRow ==
    [true_x |-> NaN, true_dx |-> NaN, obs_x |-> NaN, obs_speed |-> NaN,
     est_x |-> NaN, mode |-> -1]
NoCall == [observed |-> <<NaN, NaN>>, dt |-> 0]
NoCount == [mode |-> -1, draw |-> 0, update |-> 0, filter_step |-> 0, log |-> 0]

Idle ==
    /\ args = [boxes |-> <<>>, sampling |-> NaN]
    /\ slider = NoSlider
    /\ now = 0
    /\ log_open = FALSE
    /\ log_row = NoRow
    /\ filter_call = NoCall
    /\ count = NoCount

InitBox ==
    /\ pc = "input"
    /\ boxes \in BoxLists
    /\ \E n \in 1..MaxParticles :
          /\ weights \in WeightVecs(n)
          /\ particles \in {CloudParticles(ix) : ix \in Sorted(n, Len(PosList))}
    /\ box_weights = <<>>
    /\ gilbert = NoGilbert
    /\ upd = NoUpdate
    /\ Idle

Call_box_probability ==
    /\ pc = "input"
    /\ box_weights' = box_probability(particles, weights, boxes)
    /\ pc' = "done"
    /\ UNCHANGED <<args, boxes, particles, weights, gilbert, upd, slider, now,
                   log_open, log_row, filter_call, count>>

NextBox == Call_box_probability

SpecBox == InitBox /\ [][NextBox]_vars

----------------------------------------------------------------------------
(* A Gilbert object under a run of update calls.                           *)

InitGilbert ==
    /\ pc = "gilbert"
    /\ \E p1 \in ProbGrid, p2 \in ProbGrid : gilbert = Gilbert(p1, p2)
    /\ upd = NoUpdate
    /\ boxes = <<>>
    /\ particles = <<>>
    /\ weights = <<>>
    /\ box_weights = <<>>
    /\ Idle

Call_update ==
    /\ pc = "gilbert"
    /\ \E dt \in 0..MaxDt, u1 \in Draws, u2 \in Draws :
          /\ gilbert' = update(gilbert, dt, u1, u2)
          /\ upd' = UpdateRecord(gilbert, dt, u1, u2)
    /\ UNCHANGED <<pc, args, boxes, particles, weights, box_weights, slider, now,
                   log_open, log_row, filter_call, count>>

NextGilbert == Call_update

SpecGilbert == InitGilbert /\ [][NextGilbert]_vars

----------------------------------------------------------------------------
(* SliderDemo.                                                             *)

screen_size == 1000
\* dt of the first tick, 1 / 60.0 s: one time unit of the model
DefaultDt == 1

None == <<-1, 0>>

\* the mouse positions read from the canvas, in pixels
MouseXs == {0, 500}
\* the draws of np.random.normal(0, position_noise)
NoiseDraws == {R(3, 100)}
\* the draws of random() and uniform(0, 1) in a tick, all in [0, 1)
DemoDraws == {R(0, 1), R(19, 20)}
\* what create_slider hands to SliderDemo: the boxes and --sampling (default
\* 0.1); Box and argparse accept reversed bounds and 1.5
Configs ==
    { [boxes |-> DefaultBoxes, sampling |-> R(1, 10)],
      [boxes |-> DefaultBoxes, sampling |-> R(0, 1)],
      [boxes |-> ReversedBoxes, sampling |-> R(3, 2)] }
\* the channel parameters: SliderDemo passes (0.5, 0.3); (0.5, 0) holds the
\* channel in state 1 once it gets there
ChannelParams == {<<R(1, 2), R(3, 10)>>, <<R(1, 2), R(0, 1)>>}

DemoPosList == << R(1, 20), R(1, 2) >>

DemoParticles(n) ==
    { [i \in 1..n |-> <<DemoPosList[f[i]], Zero>>] : f \in Sorted(n, Len(DemoPosList)) }

\* slider_filter.prior(n): n particles drawn from the prior
prior(n) == DemoParticles(n)

\* slider_filter.filter_step: a cloud of the same size with non-negative weights
\* that sum to 1 (here: equal weights)
filter_step(ps) ==
    [particles : DemoParticles(Len(ps)), weights : {[i \in 1..Len(ps) |-> R(1, Len(ps))]}]

\* slider_filter.expected_position, position component: the weighted mean
expected_position(ps, ws) == RSum([i \in 1..Len(ps) |-> RMul(ws[i], ps[i][1])])

RAbs(a) == <<Abs(a[1]), a[2]>>

\* Observed with the two branches exchanged
Observed_swapped(state, u, sampling) ==
    IF state = 0 THEN RLess(u, sampling) ELSE RLess(u, R(9, 10))

\* line 189-192: the availability decision, u the np.random.uniform(0, 1) draw
Observed(state, u, sampling) ==
    IF state = 0 THEN RLess(u, R(9, 10)) ELSE RLess(u, sampling)

\* line 165: the observation handed to filter_step
Observation(sl) ==
    << IF sl.observed THEN sl.observed_x ELSE NaN, RAbs(sl.dx) >>

\* SliderDemo.__init__
SliderDemo_init ==
    /\ pc = "config"
    /\ log_open' = TRUE
    /\ \E cp \in ChannelParams : gilbert' = Gilbert(cp[1], cp[2])
    /\ particles' \in prior(n_particles)
    /\ slider' = [NoSlider EXCEPT !.sampling_intermittency = args.sampling,
                                  !.last_x = None,
                                  !.last_t = now,
                                  !.dx = Zero,
                                  !.x = Zero]
    /\ pc' = "running"
    /\ UNCHANGED <<args, boxes, weights, box_weights, upd, now, log_row,
                   filter_call, count>>

\* update_state up to line 178, when self.dx = dx / dt divides by dt = 0:
\* self.x is assigned, ZeroDivisionError leaves draw
draw_raises(screen_x, t) ==
    /\ slider.last_x # None
    /\ t - slider.last_t = 0
    /\ slider' = [slider EXCEPT !.x = R(screen_x, screen_size)]
    /\ count' = [mode |-> gilbert.state, draw |-> 1, update |-> 0,
                 filter_step |-> 0, log |-> 0]
    /\ UNCHANGED <<pc, args, boxes, particles, weights, box_weights, gilbert, upd,
                   log_open, log_row, filter_call>>

\* line 176-180: the elapsed time update_state computes
DtOf(sl, t) == IF sl.last_x # None THEN t - sl.last_t ELSE DefaultDt

\* random() is called in the first `if` only from state 0, in the second only
\* when the state is then 1; NaN stands for a draw that is not taken
FirstDraws(g) == IF g.state = 0 THEN DemoDraws ELSE {NaN}
SecondDraws(g, dt, u1) == IF AfterFirstIf(g, dt, u1) = 1 THEN DemoDraws ELSE {NaN}

\* update_state: the fields after the call
update_state(sl, g, screen_x, t, noise, uo) ==
    LET x == R(screen_x, screen_size)
        dt == DtOf(sl, t)
        dx == IF sl.last_x # None THEN RDiv(RSub(x, sl.last_x), R(dt, 1)) ELSE sl.dx
    IN  [sl EXCEPT !.x = x, !.dx = dx, !.t = t, !.last_x = x, !.last_t = t,
                   !.dt = dt, !.observed_x = RAdd(x, noise),
                   !.observed = Observed(g.state, uo, sl.sampling_intermittency)]

\* draw, when update_state returns: update_state, update_filter,
\* box_probability, expected_position, logger.log
draw_completes(screen_x, t, noise, u1, u2, uo) ==
    \E dt \in {DtOf(slider, t)} :
    \E g \in {update(gilbert, dt, u1, u2)} :
    \E sl \in {update_state(slider, g, screen_x, t, noise, uo)} :
        /\ slider.last_x # None => dt # 0
        /\ gilbert' = g
        /\ slider' = sl
        /\ filter_call' = [observed |-> Observation(sl), dt |-> sl.dt]
        /\ \E out \in filter_step(particles) :
              /\ particles' = out.particles
              /\ weights' = out.weights
              /\ box_weights' = box_probability(out.particles, out.weights, boxes)
              /\ log_row' = [true_x |-> sl.x,
                             true_dx |-> sl.dx,
                             obs_x |-> IF ~sl.observed THEN NaN ELSE sl.observed_x,
                             obs_speed |-> RAbs(sl.dx),
                             est_x |-> expected_position(out.particles, out.weights),
                             mode |-> g.state]
        /\ count' = [mode |-> gilbert.state, draw |-> 1, update |-> 1,
                     filter_step |-> 1, log |-> 1]
        /\ UNCHANGED <<pc, args, boxes, upd, log_open>>

\* one frame: the canvas reads the clock and the mouse and calls draw
draw ==
    /\ pc = "running"
    /\ \E d \in 0..MaxDt, screen_x \in MouseXs :
          /\ now + d <= MaxTime
          /\ now' = now + d
          /\ \/ draw_raises(screen_x, now')
             \/ \E noise \in NoiseDraws, u1 \in FirstDraws(gilbert), uo \in DemoDraws :
                \E u2 \in SecondDraws(gilbert, DtOf(slider, now'), u1) :
                   draw_completes(screen_x, now', noise, u1, u2, uo)

\* SliderDemo.quit
quit ==
    /\ pc = "running"
    /\ log_open' = FALSE
    /\ pc' = "quit"
    /\ UNCHANGED <<args, boxes, particles, weights, box_weights, gilbert, upd,
                   slider, now, log_row, filter_call, count>>

\* create_slider has built the boxes and parsed the arguments
Init ==
    /\ pc = "config"
    /\ args \in Configs
    /\ boxes = args.boxes
    /\ particles = <<>>
    /\ weights = <<>>
    /\ box_weights = <<>>
    /\ gilbert = NoGilbert
    /\ upd = NoUpdate
    /\ slider = NoSlider
    /\ now = 0
    /\ log_open = FALSE
    /\ log_row = NoRow
    /\ filter_call = NoCall
    /\ count = NoCount

Next == SliderDemo_init \/ draw \/ quit

Spec == Init /\ [][Next]_vars

----------------------------------------------------------------------------
(* Properties of box_probability, under SpecBox.                           *)

NonNegative(ws) == \A k \in 1..Len(ws) : ~RLess(ws[k], Zero)
NonNegativePriors(bs) == \A i \in 1..Len(bs) : ~RLess(bs[i].prior, Zero)

\* the particles strictly between the bounds of a box
Inside(ps, box) ==
    {k \in 1..Len(ps) : RLess(box.left, ps[k][1]) /\ RLess(ps[k][1], box.right)}

RECURSIVE WeightOf(_, _)
WeightOf(S, ws) ==
    IF S = {} THEN Zero
    ELSE LET k == CHOOSE j \in S : TRUE
         IN  RAdd(ws[k], WeightOf(S \ {k}, ws))

\* prior * (sum of the weights strictly inside) + 1e-6
ClaimScore(i) ==
    RAdd(RMul(boxes[i].prior, WeightOf(Inside(particles, boxes[i]), weights)), Eps)
ClaimScores == [i \in 1..Len(boxes) |-> ClaimScore(i)]
\* each score over the sum of the scores
ClaimShares(scores, total) == [i \in 1..Len(boxes) |-> RDiv(scores[i], total)]
ClaimResult(scores) == ClaimShares(scores, RSum(scores))

ExampleParticles ==
    << <<R(1, 20), Zero>>, <<R(1, 2), Zero>>, <<R(1, 2), Zero>>, <<R(19, 20), Zero>> >>
ExampleWeights == << R(1, 4), R(1, 4), R(1, 4), R(1, 4) >>
IsExample ==
    boxes = DefaultBoxes /\ particles = ExampleParticles /\ weights = ExampleWeights

\* C2: for a non-empty list of boxes and non-negative weights that sum to 1,
\* box_probability returns one value per box and the values sum to 1.
C2_PosteriorSumsToOne ==
    (pc = "done" /\ boxes # <<>> /\ NonNegative(weights) /\ RSum(weights) = One)
        => (Len(box_weights) = Len(boxes) /\ RSum(box_weights) = One)

\* C2 witness: three boxes, weights summing to 1, no particle inside any box
C2_NoParticleInAnyBox ==
    /\ pc = "done"
    /\ Len(boxes) = 3
    /\ RSum(weights) = One
    /\ \A i \in 1..Len(boxes) : Inside(particles, boxes[i]) = {}

RECURSIVE WithoutBoundary(_, _, _)
WithoutBoundary(ps, ws, box) ==
    IF ps = <<>> THEN [ps |-> <<>>, ws |-> <<>>]
    ELSE LET rest == WithoutBoundary(Tail(ps), Tail(ws), box)
         IN  IF ps[1][1] = box.left \/ ps[1][1] = box.right THEN rest
             ELSE [ps |-> <<ps[1]>> \o rest.ps, ws |-> <<ws[1]>> \o rest.ws]

SameWithoutBoundary(c, box) ==
    Posterior(particles, weights, box) = Posterior(c.ps, c.ws, box)

\* C4: a particle on the left or right bound of a box adds nothing to the score
\* of that box: the score is that of the cloud without those particles.
C4_BoundaryExcluded ==
    pc = "done" =>
        \A i \in 1..Len(boxes) :
            SameWithoutBoundary(WithoutBoundary(particles, weights, boxes[i]), boxes[i])

\* C4 witness: a particle with positive weight on the bound A and X share
C4_ParticleOnSharedBound ==
    /\ pc = "done"
    /\ boxes = DefaultBoxes
    /\ \E k \in 1..Len(particles) :
          particles[k][1] = R(1, 10) /\ RLess(Zero, weights[k])

\* C5: for non-negative weights and priors every returned value is a number
\* strictly greater than 0.
C5_NeverZero ==
    (pc = "done" /\ NonNegative(weights) /\ NonNegativePriors(boxes))
        => \A i \in 1..Len(boxes) : RLess(Zero, box_weights[i])

\* C5 witness: some weight is positive and all of it lies outside every box
C5_AllWeightOutside ==
    /\ pc = "done"
    /\ boxes = DefaultBoxes
    /\ \E k \in 1..Len(weights) : RLess(Zero, weights[k])
    /\ \A k \in 1..Len(weights) :
          RLess(Zero, weights[k]) =>
              \A i \in 1..Len(boxes) : k \notin Inside(particles, boxes[i])

----------------------------------------------------------------------------
(* Properties of Gilbert.update, under SpecGilbert.                        *)

Called == upd.pre # -1

\* C1: a call applies at most the outgoing transition of the state it started
\* in: from state 0 with the draw below the scaled p1 it returns 1 (it never
\* goes 0 -> 1 -> 0).
C1_OneTransitionPerCall ==
    (Called /\ upd.pre = 0 /\ RLess(upd.u1, Scaled(gilbert.p1, upd.dt)))
        => (upd.ret = 1 /\ gilbert.state = 1)

\* C8: update(0) returns the state it started in and leaves it in place; both
\* scaled probabilities are 0 at dt = 0.
C8_ZeroDtKeepsState ==
    (Called /\ upd.dt = 0) =>
        /\ gilbert.state = upd.pre
        /\ upd.ret = upd.pre
        /\ Scaled(gilbert.p1, 0) = Zero
        /\ Scaled(gilbert.p2, 0) = Zero

\* C8 witness: update(0) from state 1 with p2 > 0 and a draw of 0
C8_ZeroDtFromBursty ==
    /\ Called
    /\ upd.dt = 0
    /\ upd.pre = 1
    /\ upd.u2 = Zero
    /\ RLess(Zero, gilbert.p2)

----------------------------------------------------------------------------
(* Properties of SliderDemo, under Spec.                                   *)

\* the channel is held in state 1 and the bursty observation probability is 0
Held ==
    /\ pc = "running"
    /\ gilbert.state = 1
    /\ gilbert.p2 = Zero
    /\ slider.sampling_intermittency = Zero

\* C6: a tick that starts with the channel held in state 1 and sampling 0 leaves
\* observed false, the position of the last filter_step call NaN and the last
\* logged obs_x NaN, and the channel in state 1.
C6_NoObservationLeaks ==
    [][(Held /\ pc' = "running") =>
          /\ Held'
          /\ ~slider'.observed
          /\ IsNaN(filter_call'.observed[1])
          /\ IsNaN(log_row'.obs_x)]_vars

\* C6 witness: a tick that started in the held channel has run to its end
C6_HeldTickCompleted ==
    /\ Held
    /\ count.mode = 1
    /\ count.log = 1
    /\ slider.dt = 2

InUnit(p) == ~RLess(p, Zero) /\ RLess(p, One)

ValidConfig ==
    /\ \A i \in 1..Len(args.boxes) : RLess(args.boxes[i].left, args.boxes[i].right)
    /\ InUnit(args.sampling)
    /\ n_particles > 0
    /\ gilbert # NoGilbert => InUnit(gilbert.p1) /\ InUnit(gilbert.p2)

\* C7: with an invalid configuration construction fails: no channel, no particle
\* cloud and no log file exists.
C7_InvalidConfigRejected ==
    ~ValidConfig =>
        /\ pc = "config"
        /\ gilbert = NoGilbert
        /\ particles = <<>>
        /\ ~log_open

\* C9: every draw call advances the channel once, calls filter_step once with
\* the observation and dt of the tick, computes the posterior and the mean from
\* the cloud it returned, and logs the channel state the decision used.
C9_OneAdvanceOneFilterStepPerTick ==
    count.draw = 1 =>
        /\ count.update = 1
        /\ count.filter_step = 1
        /\ filter_call = [observed |-> Observation(slider), dt |-> slider.dt]
        /\ box_weights = box_probability(particles, weights, boxes)
        /\ log_row.est_x = expected_position(particles, weights)
        /\ log_row.mode = gilbert.state

\* C10: every draw call runs to its end and logs a row, also with dt = 0.
C10_EveryTickCompletes == count.draw = 1 => count.log = 1

\* On the ticks that run to their end the order C9 states does hold.
CompletedTickOrder ==
    count.log = 1 =>
        /\ count.update = 1
        /\ count.filter_step = 1
        /\ filter_call = [observed |-> Observation(slider), dt |-> slider.dt]
        /\ box_weights = box_probability(particles, weights, boxes)
        /\ log_row.est_x = expected_position(particles, weights)
        /\ log_row.mode = gilbert.state
        /\ log_row.obs_x = filter_call.observed[1]

====
